---------------------------- MODULE Spec2Model ----------------------------
(***************************************************************************)
(* Model of cloudinit/sources/helpers/vultr.py: platform detection, the    *)
(* memoized metadata fetch, MAC-to-interface-name resolution, the network  *)
(* and vendor configuration synthesis and the network cache store.         *)
(*                                                                         *)
(* Python values: a str is a TLA+ string, a dict is a function on its      *)
(* keys, a list is a sequence.  Every call is one atomic action (the       *)
(* module is single-threaded); `ret` records the last call: its name, its  *)
(* argument, the exception it raised ("None" if it returned), the value    *)
(* it returned and the HTTP requests it issued.                            *)
(***************************************************************************)
EXTENDS Integers, Sequences, FiniteSets, TLC

VARIABLES
    METADATA,       \* module global METADATA (vultr.py:35)
    MAC_TO_NICS,    \* module global MAC_TO_NICS (vultr.py:34)
    server,         \* what the metadata service serves (environment)
    fetchCycles,    \* number of fetch cycles get_metadata has started
    osQueries,      \* number of net.get_interfaces_by_mac() calls made
    manufacturer,   \* dmi system-manufacturer (environment)
    cmdline,        \* /proc/cmdline: [exists, content]
    etcVultr,       \* /etc/vultr: "absent", "file" or "dir"
    cacheDir,       \* TRUE iff /etc/vultr/cache/ exists
    cacheFile,      \* /etc/vultr/cache/network: [exists, content]
    ret             \* the last call and its outcome

vars == <<METADATA, MAC_TO_NICS, server, fetchCycles, osQueries,
          manufacturer, cmdline, etcVultr, cacheDir, cacheFile, ret>>

procVars == <<METADATA, MAC_TO_NICS, server, fetchCycles, osQueries>>
hostVars == <<manufacturer, cmdline, etcVultr, cacheDir, cacheFile>>

----------------------------------------------------------------------------
(* Bounds of the model *)

MaxIfaces == 3          \* longest interface list the service serves
MaxFetchCycles == 2     \* fetch cycles followed per behaviour
MaxOsQueries == 2       \* OS interface queries followed per behaviour

----------------------------------------------------------------------------
(* Python basics *)

\* Python's None
None == [None |-> TRUE]

\* the empty dict {}
EmptyDict == <<>>

\* `not x` for x that is None or a dict
py_not(x) == x = None \/ x = EmptyDict

\* `sub in s` for strings
str_in(sub, s) ==
    \E i \in 1..(Len(s) - Len(sub) + 1) : SubSeq(s, i, i + Len(sub) - 1) = sub

\* s.startswith(prefix)
startswith(s, prefix) ==
    Len(s) >= Len(prefix) /\ SubSeq(s, 1, Len(prefix)) = prefix

\* F(v), with v evaluated once: a local variable assigned v
With(v, F(_)) == CHOOSE y \in {F(x) : x \in {v}} : TRUE

\* the outcome of a call that returned v
Returned(v) == [exc |-> "None", value |-> v]

\* the outcome of a call that raised e
Raised(e) == [exc |-> e, value |-> None]

----------------------------------------------------------------------------
(* Metadata fetcher *)

API_MAP ==
    ("startup-script" :> "/latest/startup-script") @@
    ("hostname" :> "/latest/meta-data/hostname") @@
    ("user-data" :> "/latest/user-data") @@
    ("mdisk-mode" :> "/v1/internal/mdisk-mode") @@
    ("root-password" :> "/v1/internal/root-password") @@
    ("ssh-keys" :> "/current/ssh-keys") @@
    ("ipv6-dns1" :> "/current/ipv6-dns1") @@
    ("ipv6-addr" :> "/current/meta-data/ipv6-addr") @@
    ("v1.json" :> "/v1.json")

\* Translate flag to endpoint
get_url(url, flag) ==
    IF flag \in DOMAIN API_MAP THEN url \o API_MAP[flag]
    ELSE IF str_in("app-", flag) \/ str_in("md-", flag)
         THEN url \o "/v1/internal/" \o flag
         ELSE ""

\* json.loads of a response body: a body is either the JSON text of a
\* document, <<"json", doc>>, or text that is not JSON, <<"garbage">>
json_loads(body) ==
    IF body[1] = "json" THEN Returned(body[2]) ELSE Raised("JSONDecodeError")

\* a plausible slip: the response is not checked with ok()
read_metadata_unchecked(req, response) ==
    IF response.raised THEN Raised("UrlError")
    ELSE Returned(response.contents)

\* Read Metadata endpoint.  response is what url_helper.readurl does for
\* req.url: it raises, or returns a response with ok() and contents.  The
\* raise statement for a response that is not ok formats two %s with one
\* argument, so what propagates is a TypeError.
read_metadata(req, response) ==
    IF response.raised THEN Raised("UrlError")
    ELSE IF ~response.ok THEN Raised("TypeError")
    ELSE Returned(response.contents)

\* Get Metadata by flag.  http[flag] is what the service does for the URL of
\* the field; requests lists the URLs handed to url_helper.readurl.
fetch_metadata(flag, params, http) ==
    LET req == [params EXCEPT !.url = get_url(params.url, flag)]
    IN  IF req.url = ""
        THEN [exc |-> "RuntimeError", value |-> None, requests |-> <<>>]
        ELSE LET r == read_metadata(req, http[flag])
             IN  [exc |-> r.exc, value |-> r.value, requests |-> <<req.url>>]

\* the items of the dict literal of get_metadata, in evaluation order:
\* <<key, flag>>
MetadataItems ==
    << <<"startup-script", "startup-script">>,
       <<"hostname", "hostname">>,
       <<"user-data", "user-data">>,
       <<"mdisk-mode", "mdisk-mode">>,
       <<"root-password", "root-password">>,
       <<"ssh-keys", "ssh-keys">>,
       <<"ipv6-dns1", "ipv6-dns1">>,
       <<"ipv6-addr", "ipv6-addr">>,
       <<"v1", "v1.json">> >>

MetadataKeys == {MetadataItems[i][1] : i \in 1..Len(MetadataItems)}

\* the index of key in MetadataItems
item_index(key) ==
    CHOOSE i \in 1..Len(MetadataItems) : MetadataItems[i][1] = key

\* the value of item i of the dict literal of get_metadata, were it
\* evaluated: fetch_metadata(flag, params), through json.loads for v1
item_value(i, params, http) ==
    LET r == fetch_metadata(MetadataItems[i][2], params, http)
    IN  IF r.exc # "None"
        THEN [exc |-> r.exc, value |-> None, requests |-> r.requests]
        ELSE IF MetadataItems[i][1] = "v1"
        THEN json_loads(r.value) @@ [requests |-> r.requests]
        ELSE r

\* the URLs requested by the items 1..n, in order (an item requests at most
\* one URL)
item_requests(n, params, http) ==
    With(SelectSeq([i \in 1..n |-> item_value(i, params, http).requests],
                   LAMBDA q : q # <<>>),
         LAMBDA made : [i \in 1..Len(made) |-> made[i][1]])

\* the dict literal of get_metadata: the items are evaluated in order, the
\* first exception ends the evaluation and no dict is built
build_metadata(params, http) ==
    With({i \in 1..Len(MetadataItems) :
              item_value(i, params, http).exc # "None"},
         LAMBDA bad :
            IF bad = {}
            THEN [exc |-> "None",
                  value |-> [k \in MetadataKeys |->
                                item_value(item_index(k), params, http).value],
                  requests |-> item_requests(Len(MetadataItems), params, http)]
            ELSE With(CHOOSE i \in bad : \A j \in bad : i <= j,
                      LAMBDA stop :
                         [exc |-> item_value(stop, params, http).exc,
                          value |-> None,
                          requests |-> item_requests(stop, params, http)]))

\* a plausible slip: the cache is never consulted
get_metadata_nocache(md, params, http) ==
    With(build_metadata(params, http), LAMBDA b :
        [METADATA |-> IF b.exc = "None" THEN b.value ELSE md,
         exc |-> b.exc, value |-> b.value,
         requests |-> b.requests, cycles |-> 1])

\* Cache the metadata for optimization.  md is the global METADATA before
\* the call; the result carries the global after it.
get_metadata(md, params, http) ==
    IF py_not(md)
    THEN With(build_metadata(params, http), LAMBDA b :
             [METADATA |-> IF b.exc = "None" THEN b.value ELSE md,
              exc |-> b.exc, value |-> b.value,
              requests |-> b.requests, cycles |-> 1])
    ELSE [METADATA |-> md, exc |-> "None", value |-> md,
          requests |-> <<>>, cycles |-> 0]

----------------------------------------------------------------------------
(* Interface resolver *)

\* Convert macs to nics.  nics is the global MAC_TO_NICS before the call and
\* os is what net.get_interfaces_by_mac() returns if it is called now.
\* found is FALSE when the value returned is Python's None.
get_interface_name(nics, mac, os) ==
    LET query == py_not(nics)
        m == IF query THEN os ELSE nics
        q == IF query THEN 1 ELSE 0
    IN  IF mac \notin DOMAIN m
        THEN [MAC_TO_NICS |-> m, found |-> FALSE, value |-> None,
              queries |-> q]
        ELSE [MAC_TO_NICS |-> m, found |-> TRUE, value |-> m[mac],
              queries |-> q]

\* `not interface_name` for the result r of get_interface_name
not_interface_name(r) == ~r.found \/ r.value = ""

----------------------------------------------------------------------------
(* Network synthesizer *)

\* the first block of every network configuration
nameserver_netcfg ==
    [type |-> "nameserver", address |-> <<"108.61.10.10">>]

\* a plausible slip: the gateway of the primary interface is left out
primary_netcfg_nogw(interface, interface_name) ==
    ("name" :> interface_name) @@
    ("type" :> "physical") @@
    ("mac_address" :> interface.mac) @@
    ("accept-ra" :> 1) @@
    ("subnets" :> << [type |-> "static", control |-> "auto",
                      address |-> interface.ipv4.address,
                      netmask |-> interface.ipv4.netmask],
                     [type |-> "dhcp6", control |-> "auto"] >>)

\* the block of interface 0 (vultr.py:192-210)
primary_netcfg(interface, interface_name) ==
    ("name" :> interface_name) @@
    ("type" :> "physical") @@
    ("mac_address" :> interface.mac) @@
    ("accept-ra" :> 1) @@
    ("subnets" :> << [type |-> "static", control |-> "auto",
                      address |-> interface.ipv4.address,
                      gateway |-> interface.ipv4.gateway,
                      netmask |-> interface.ipv4.netmask],
                     [type |-> "dhcp6", control |-> "auto"] >>)

\* a plausible slip: the secondary block copies the gateway as the primary
\* block does
secondary_netcfg_gw(interface, interface_name) ==
    ("name" :> interface_name) @@
    ("type" :> "physical") @@
    ("mac_address" :> interface.mac) @@
    ("accept-ra" :> 1) @@
    ("subnets" :> << [type |-> "static", control |-> "auto",
                      address |-> interface.ipv4.address,
                      gateway |-> interface.ipv4.gateway,
                      netmask |-> interface.ipv4.netmask] >>)

\* the block of interface 1 (vultr.py:220-233)
secondary_netcfg(interface, interface_name) ==
    ("name" :> interface_name) @@
    ("type" :> "physical") @@
    ("mac_address" :> interface.mac) @@
    ("accept-ra" :> 1) @@
    ("subnets" :> << [type |-> "static", control |-> "auto",
                      address |-> interface.ipv4.address,
                      netmask |-> interface.ipv4.netmask] >>)

\* a plausible slip: the secondary block is built from the last interface
\* of the list instead of the second
network_blocks_last(interfaces, nics, os) ==
    IF ~(Len(interfaces) > 0)
    THEN [MAC_TO_NICS |-> nics, exc |-> "None",
          value |-> <<nameserver_netcfg>>, queries |-> 0]
    ELSE With(get_interface_name(nics, interfaces[1].mac, os), LAMBDA n0 :
        IF not_interface_name(n0)
        THEN [MAC_TO_NICS |-> n0.MAC_TO_NICS, exc |-> "RuntimeError",
              value |-> None, queries |-> n0.queries]
        ELSE IF ~(Len(interfaces) > 1)
        THEN [MAC_TO_NICS |-> n0.MAC_TO_NICS, exc |-> "None",
              value |-> <<nameserver_netcfg,
                          primary_netcfg(interfaces[1], n0.value)>>,
              queries |-> n0.queries]
        ELSE With(get_interface_name(n0.MAC_TO_NICS,
                                     interfaces[Len(interfaces)].mac, os),
                  LAMBDA n1 :
            IF not_interface_name(n1)
            THEN [MAC_TO_NICS |-> n1.MAC_TO_NICS, exc |-> "RuntimeError",
                  value |-> None, queries |-> n0.queries + n1.queries]
            ELSE [MAC_TO_NICS |-> n1.MAC_TO_NICS, exc |-> "None",
                  value |-> <<nameserver_netcfg,
                              primary_netcfg(interfaces[1], n0.value),
                              secondary_netcfg(interfaces[Len(interfaces)],
                                               n1.value)>>,
                  queries |-> n0.queries + n1.queries]))

\* network['config'] as generate_network_config builds it from the
\* interface list (vultr.py:174-235)
network_blocks(interfaces, nics, os) ==
    IF ~(Len(interfaces) > 0)
    THEN [MAC_TO_NICS |-> nics, exc |-> "None",
          value |-> <<nameserver_netcfg>>, queries |-> 0]
    ELSE With(get_interface_name(nics, interfaces[1].mac, os), LAMBDA n0 :
        IF not_interface_name(n0)
        THEN [MAC_TO_NICS |-> n0.MAC_TO_NICS, exc |-> "RuntimeError",
              value |-> None, queries |-> n0.queries]
        ELSE IF ~(Len(interfaces) > 1)
        THEN [MAC_TO_NICS |-> n0.MAC_TO_NICS, exc |-> "None",
              value |-> <<nameserver_netcfg,
                          primary_netcfg(interfaces[1], n0.value)>>,
              queries |-> n0.queries]
        ELSE With(get_interface_name(n0.MAC_TO_NICS, interfaces[2].mac, os),
                  LAMBDA n1 :
            IF not_interface_name(n1)
            THEN [MAC_TO_NICS |-> n1.MAC_TO_NICS, exc |-> "RuntimeError",
                  value |-> None, queries |-> n0.queries + n1.queries]
            ELSE [MAC_TO_NICS |-> n1.MAC_TO_NICS, exc |-> "None",
                  value |-> <<nameserver_netcfg,
                              primary_netcfg(interfaces[1], n0.value),
                              secondary_netcfg(interfaces[2], n1.value)>>,
                  queries |-> n0.queries + n1.queries]))

\* Generate network configs.  md and nics are the globals before the call;
\* the result carries the globals after it.
generate_network_config(md, nics, config, http, os) ==
    With(get_metadata(md, config, http), LAMBDA g :
        IF g.exc # "None"
        THEN [METADATA |-> g.METADATA, MAC_TO_NICS |-> nics,
              exc |-> g.exc, value |-> None, requests |-> g.requests,
              cycles |-> g.cycles, queries |-> 0]
        ELSE With(network_blocks(g.value["v1"].interfaces, nics, os),
                  LAMBDA b :
            [METADATA |-> g.METADATA, MAC_TO_NICS |-> b.MAC_TO_NICS,
             exc |-> b.exc,
             value |-> IF b.exc = "None"
                       THEN [version |-> 1, config |-> b.value]
                       ELSE None,
             requests |-> g.requests, cycles |-> g.cycles,
             queries |-> b.queries]))

----------------------------------------------------------------------------
(* Vendor config synthesizer *)

\* the ASCII characters of code points 32..95
AsciiUpper ==
    " !\"#$%&'()*+,-./0123456789:;<=>?@ABCDEFGHIJKLMNOPQRSTUVWXYZ[\\]^_"

\* the ASCII characters of code points 97..126
AsciiLower == "abcdefghijklmnopqrstuvwxyz{|}~"

\* the base64 alphabet, values 0..63
B64Alphabet ==
    "ABCDEFGHIJKLMNOPQRSTUVWXYZabcdefghijklmnopqrstuvwxyz0123456789+/"

\* the character at position i of s
char_at(s, i) == SubSeq(s, i, i)

\* the code point of an ASCII character (script.encode("ascii")), for the
\* newline and the characters of the two tables
ord(c) ==
    IF c = "\n" THEN 10
    ELSE IF str_in(c, AsciiUpper)
    THEN 31 + (CHOOSE i \in 1..Len(AsciiUpper) : char_at(AsciiUpper, i) = c)
    ELSE 96 + (CHOOSE i \in 1..Len(AsciiLower) : char_at(AsciiLower, i) = c)

\* the base64 digit of value v
b64digit(v) == char_at(B64Alphabet, v + 1)

\* base64.b64encode(script.encode("ascii")).decode("ascii")
RECURSIVE b64encode(_)
b64encode(s) ==
    LET b1 == ord(char_at(s, 1))
        b2 == ord(char_at(s, 2))
        b3 == ord(char_at(s, 3))
    IN  IF Len(s) = 0 THEN ""
        ELSE IF Len(s) = 1
        THEN b64digit(b1 \div 4) \o b64digit((b1 % 4) * 16) \o "=="
        ELSE IF Len(s) = 2
        THEN b64digit(b1 \div 4) \o b64digit((b1 % 4) * 16 + b2 \div 16)
             \o b64digit((b2 % 16) * 4) \o "="
        ELSE b64digit(b1 \div 4) \o b64digit((b1 % 4) * 16 + b2 \div 16)
             \o b64digit((b2 % 16) * 4 + b3 \div 64) \o b64digit(b3 % 64)
             \o b64encode(SubSeq(s, 4, Len(s)))

\* d[k] = v on a dict
dict_set(d, k, v) == (k :> v) @@ d

\* the write_files entry of the startup script
write_files_entry(script) ==
    [encoding |-> "b64", content |-> script, owner |-> "root:root",
     path |-> "/tmp/startup-vultr.sh", permissions |-> "0755"]

\* the two commands that run and remove the startup script
startup_runcmd ==
    << "/tmp/startup-vultr.sh &> /var/log/vultr-boot.log",
       "rm -f /tmp/startup-vultr.sh" >>

\* config_template as first assigned (vultr.py:257-273)
config_template(rootpw, network) ==
    [package_upgrade |-> "true",
     disable_root |-> 0,
     ssh_pwauth |-> 1,
     chpasswd |-> [expire |-> FALSE, list |-> <<"root:" \o rootpw>>],
     system_info |-> [default_user |-> [name |-> "root"]],
     network |-> network]

\* the statements under `if script != ""` (vultr.py:276-292): the
\* write_files assignment, then the runcmd assignment, whose right-hand
\* side reads config_template['runcmd']
set_startup_script(template, script) ==
    LET t1 == dict_set(template, "write_files", <<write_files_entry(script)>>)
    IN  IF "runcmd" \notin DOMAIN t1
        THEN Raised("KeyError")
        ELSE Returned(dict_set(t1, "runcmd", t1["runcmd"] \o startup_runcmd))

\* the statements of generate_config after get_metadata returned bundle g
\* (vultr.py:247-294); nics is the global MAC_TO_NICS before the call
vendor_config(g, nics, config, http, os) ==
    With(IF g.value["startup-script"] # ""
         THEN b64encode(g.value["startup-script"])
         ELSE g.value["startup-script"], LAMBDA script :
    With(generate_network_config(g.METADATA, nics, config, http, os),
         LAMBDA n :
        IF n.exc # "None"
        THEN [METADATA |-> n.METADATA, MAC_TO_NICS |-> n.MAC_TO_NICS,
              exc |-> n.exc, value |-> None,
              requests |-> g.requests \o n.requests,
              cycles |-> g.cycles + n.cycles, queries |-> n.queries]
        ELSE With(IF script # ""
                  THEN set_startup_script(
                           config_template(g.value["root-password"], n.value),
                           script)
                  ELSE Returned(
                           config_template(g.value["root-password"], n.value)),
                  LAMBDA t :
            [METADATA |-> n.METADATA, MAC_TO_NICS |-> n.MAC_TO_NICS,
             exc |-> t.exc, value |-> t.value,
             requests |-> g.requests \o n.requests,
             cycles |-> g.cycles + n.cycles, queries |-> n.queries])))

\* Generate the vendor config.  md and nics are the globals before the
\* call; the result carries the globals after it.
generate_config(md, nics, config, http, os) ==
    With(get_metadata(md, config, http), LAMBDA g :
        IF g.exc # "None"
        THEN [METADATA |-> g.METADATA, MAC_TO_NICS |-> nics,
              exc |-> g.exc, value |-> None, requests |-> g.requests,
              cycles |-> g.cycles, queries |-> 0]
        ELSE vendor_config(g, nics, config, http, os))

----------------------------------------------------------------------------
(* Platform detector *)

\* a file that does not exist
NoFile == [exists |-> FALSE, content |-> ""]

\* a file with the given content
File(content) == [exists |-> TRUE, content |-> content]

\* the positions just after a match of the pattern .+root= that starts at
\* position p of s: one or more characters other than newline, then root=
match_ends(s, p) ==
    { q + 5 : q \in { k \in (p + 1)..(Len(s) - 4) :
                        /\ SubSeq(s, k, k + 4) = "root="
                        /\ ~str_in("\n", SubSeq(s, p, k - 1)) } }

\* the largest element of a non-empty set of integers
max_of(S) == CHOOSE m \in S : \A k \in S : k <= m

\* re.sub(r'.+root=', '', s) from position p on: the leftmost match is
\* taken, as long as it can be (.+ is greedy), and the scan goes on after it
RECURSIVE re_sub_root(_, _)
re_sub_root(s, p) ==
    IF p > Len(s) THEN ""
    ELSE IF match_ends(s, p) # {}
    THEN re_sub_root(s, max_of(match_ends(s, p)))
    ELSE char_at(s, p) \o re_sub_root(s, p + 1)

\* str.strip() of a string of one character
strip1(c) == IF c \in {" ", "\n", "\t", "\r"} THEN "" ELSE c

\* Get kernel parameters.  The result of re.sub is indexed with [1], the
\* second character of the string.
get_kernel_parameters(file) ==
    LET content == file.content
        subbed == re_sub_root(content, 1)
    IN  IF ~file.exists THEN Returned("")
        ELSE IF ~str_in("root=", content) THEN Returned("")
        ELSE IF Len(subbed) < 2 THEN Raised("IndexError")
        ELSE Returned(strip1(char_at(subbed, 2)))

\* Read the system information from SMBIOS
get_sysinfo(manuf) == [manufacturer |-> manuf]

\* Confirm is Vultr
is_vultr(manuf, file, etc) ==
    LET sysinfo == get_sysinfo(manuf)
        k == get_kernel_parameters(file)
    IN  IF sysinfo.manufacturer = "Vultr" THEN Returned(TRUE)
        ELSE IF k.exc # "None" THEN Raised(k.exc)
        ELSE IF str_in("vultr", k.value) THEN Returned(TRUE)
        ELSE IF etc # "absent" /\ etc = "dir" THEN Returned(TRUE)
        ELSE Returned(FALSE)

----------------------------------------------------------------------------
(* Network cache store *)

\* the names the module binds at import time (vultr.py:5-17): `from os
\* import path` binds path, not os
ModuleNames ==
    {"json", "re", "path", "base64", "log", "url_helper", "dmi", "net",
     "LOGGER"}

\* "s" as JSON text
json_str(s) == "\"" \o s \o "\""

\* sep.join(strs)
RECURSIVE str_join(_, _)
str_join(strs, sep) ==
    IF Len(strs) = 0 THEN ""
    ELSE IF Len(strs) = 1 THEN strs[1]
    ELSE strs[1] \o sep \o str_join(Tail(strs), sep)

\* the members "k": "d[k]" of dict d for the keys of ks that d has, in the
\* order of ks
RECURSIVE json_members(_, _)
json_members(d, ks) ==
    IF Len(ks) = 0 THEN <<>>
    ELSE (IF ks[1] \in DOMAIN d
          THEN <<json_str(ks[1]) \o ": " \o json_str(d[ks[1]])>>
          ELSE <<>>) \o json_members(d, Tail(ks))

\* json.dumps of a subnet dict (keys in insertion order)
json_subnet(sn) ==
    "{" \o str_join(json_members(sn,
               <<"type", "control", "address", "gateway", "netmask">>), ", ")
        \o "}"

\* json.dumps of one block of network['config']
json_block(b) ==
    IF b.type = "nameserver"
    THEN "{\"type\": \"nameserver\", \"address\": ["
         \o str_join([i \in 1..Len(b.address) |-> json_str(b.address[i])],
                     ", ")
         \o "]}"
    ELSE "{" \o str_join(json_members(b, <<"name", "type", "mac_address">>),
                         ", ")
         \o ", \"accept-ra\": " \o ToString(b["accept-ra"])
         \o ", \"subnets\": ["
         \o str_join([i \in 1..Len(b.subnets) |-> json_subnet(b.subnets[i])],
                     ", ")
         \o "]}"

\* json.dumps(config) of a network configuration document
json_dumps(config) ==
    "{\"version\": " \o ToString(config.version) \o ", \"config\": ["
    \o str_join([i \in 1..Len(config.config) |-> json_block(config.config[i])],
                ", ")
    \o "]}"

\* os.makedirs("/etc/vultr/cache/", exist_ok=True) on the file system
\* [etcVultr, cacheDir, cacheFile]; the name os is looked up first
os_makedirs(fs) ==
    IF "os" \notin ModuleNames THEN [exc |-> "NameError", fs |-> fs]
    ELSE IF fs.etcVultr = "file" THEN [exc |-> "OSError", fs |-> fs]
    ELSE [exc |-> "None",
          fs |-> [fs EXCEPT !.etcVultr = "dir", !.cacheDir = TRUE]]

\* Read cached network config
get_cached_network_config(fs) ==
    LET m == os_makedirs(fs)
        content == IF m.fs.cacheFile.exists THEN m.fs.cacheFile.content
                   ELSE ""
    IN  IF m.exc # "None" THEN [exc |-> m.exc, value |-> None, fs |-> m.fs]
        ELSE [exc |-> "None", value |-> content, fs |-> m.fs]

\* Cached network config
cache_network_config(fs, config) ==
    LET m == os_makedirs(fs)
    IN  IF m.exc # "None" THEN [exc |-> m.exc, value |-> None, fs |-> m.fs]
        ELSE [exc |-> "None", value |-> None,
              fs |-> [m.fs EXCEPT !.cacheFile = File(json_dumps(config))]]

----------------------------------------------------------------------------
(* The environment: what the metadata service and the OS can answer *)

\* an InterfaceDescriptor of the instance document
Iface(mac, address, gateway, netmask) ==
    [mac |-> mac,
     ipv4 |-> [address |-> address, gateway |-> gateway,
               netmask |-> netmask]]

PublicIface ==
    Iface("56:00:03:15:c4:65", "108.61.89.242", "108.61.89.1",
          "255.255.255.0")

PrivateIface ==
    Iface("5a:00:03:1b:4e:ca", "10.1.112.3", "", "255.255.240.0")

ThirdIface ==
    Iface("5a:00:03:1b:4e:cb", "10.2.0.5", "10.2.0.1", "255.255.0.0")

Descriptors == {PublicIface, PrivateIface, ThirdIface}

MACs == {d.mac : d \in Descriptors}

\* the interface lists of length 0..n
IfaceLists(n) == UNION {[1..k -> Descriptors] : k \in 0..n}

\* the instance documents the service can serve
Docs == {[interfaces |-> l] : l \in IfaceLists(MaxIfaces)}

Scripts == {"", "ls\n"}

Servers == [script : Scripts, v1 : Docs]

\* the servers followed through faults: the interface list is public,
\* private, third, cut at some length
FaultyServers ==
    {srv \in Servers :
        \A i \in 1..Len(srv.v1.interfaces) :
            srv.v1.interfaces[i] =
                <<PublicIface, PrivateIface, ThirdIface>>[((i - 1) % 3) + 1]}

Params ==
    {[url |-> u, timeout |-> 10, retries |-> 3, wait |-> 1] :
        u \in {"http://169.254.169.254", "http://md"}}

\* the field names fetch_metadata is called with
Flags ==
    DOMAIN API_MAP \cup
    {"app-nginx", "md-state", "my-app-x", "cmd-line", "v1", "bogus", ""}

\* no fault: every request is answered with a successful response
NoFault == [flag |-> "none", kind |-> "none"]

\* the faults of one call: the request for one field is answered with a
\* response that is not ok, or readurl raises on the first request, or the
\* v1.json body is not JSON
Faults ==
    {NoFault} \cup
    [flag : DOMAIN API_MAP, kind : {"notok"}] \cup
    {[flag |-> "startup-script", kind |-> "raise"],
     [flag |-> "v1.json", kind |-> "garbage"]}

\* the faults followed through the two synthesizers
SynthFaults ==
    {NoFault,
     [flag |-> "root-password", kind |-> "notok"],
     [flag |-> "v1.json", kind |-> "garbage"]}

\* the body the service serves for a field
Body(srv, flag) ==
    IF flag = "startup-script" THEN srv.script
    ELSE IF flag = "v1.json" THEN <<"json", srv.v1>>
    ELSE IF flag = "root-password" THEN "hunter2"
    ELSE "<" \o flag \o ">"

\* what url_helper.readurl does for each field under a fault
Http(srv, fault) ==
    [flag \in Flags |->
        IF fault.flag # flag
        THEN [raised |-> FALSE, ok |-> TRUE, contents |-> Body(srv, flag)]
        ELSE IF fault.kind = "raise"
        THEN [raised |-> TRUE, ok |-> FALSE, contents |-> ""]
        ELSE IF fault.kind = "notok"
        THEN [raised |-> FALSE, ok |-> FALSE, contents |-> ""]
        ELSE [raised |-> FALSE, ok |-> TRUE, contents |-> <<"garbage">>]]

\* a fault can only show when a request goes out
FaultsFor(F, md) == IF py_not(md) THEN F ELSE {NoFault}

IfName ==
    ("56:00:03:15:c4:65" :> "eth0") @@
    ("5a:00:03:1b:4e:ca" :> "eth1") @@
    ("5a:00:03:1b:4e:cb" :> "eth2")

\* what net.get_interfaces_by_mac() can return
OSMaps ==
    { EmptyDict,
      [m \in {"56:00:03:15:c4:65"} |-> IfName[m]],
      [m \in {"56:00:03:15:c4:65", "5a:00:03:1b:4e:ca"} |-> IfName[m]],
      IfName,
      ("56:00:03:15:c4:65" :> "eth1") @@ ("5a:00:03:1b:4e:ca" :> "eth0") }

\* the OS is only asked when the mapping is not built
OSMapsFor(nics) == IF py_not(nics) THEN OSMaps ELSE {EmptyDict}

----------------------------------------------------------------------------
(* The calls *)

NoCall ==
    [op |-> "none", arg |-> None, exc |-> "None", value |-> None,
     found |-> TRUE, requests |-> <<>>, queries |-> 0]

\* a call that touches the two caches: r is the result of its operator and
\* fault what the service did during the call
ProcCall(op, fault, r) ==
    /\ fetchCycles + r.cycles <= MaxFetchCycles
    /\ osQueries + r.queries <= MaxOsQueries
    /\ METADATA' = r.METADATA
    /\ MAC_TO_NICS' = r.MAC_TO_NICS
    /\ fetchCycles' = fetchCycles + r.cycles
    /\ osQueries' = osQueries + r.queries
    /\ ret' = [op |-> op, arg |-> fault, exc |-> r.exc, value |-> r.value,
               found |-> TRUE, requests |-> r.requests,
               queries |-> r.queries]
    /\ UNCHANGED <<server, hostVars>>

GetMetadata ==
    \E params \in Params, fault \in FaultsFor(Faults, METADATA) :
        \E r \in {get_metadata(METADATA, params, Http(server, fault))} :
            ProcCall("get_metadata", fault,
                     r @@ [MAC_TO_NICS |-> MAC_TO_NICS, queries |-> 0])

FetchMetadata ==
    \E flag \in Flags, params \in Params, fault \in Faults :
        /\ fault.flag \in {flag, "none"}
        /\ \E r \in {fetch_metadata(flag, params, Http(server, fault))} :
               ret' = [op |-> "fetch_metadata", arg |-> flag, exc |-> r.exc,
                       value |-> r.value, found |-> TRUE,
                       requests |-> r.requests, queries |-> 0]
        /\ UNCHANGED <<procVars, hostVars>>

GetInterfaceName ==
    \E mac \in MACs, os \in OSMapsFor(MAC_TO_NICS) :
        \E r \in {get_interface_name(MAC_TO_NICS, mac, os)} :
            /\ osQueries + r.queries <= MaxOsQueries
            /\ MAC_TO_NICS' = r.MAC_TO_NICS
            /\ osQueries' = osQueries + r.queries
            /\ ret' = [op |-> "get_interface_name", arg |-> mac,
                       exc |-> "None", value |-> r.value,
                       found |-> r.found, requests |-> <<>>,
                       queries |-> r.queries]
            /\ UNCHANGED <<METADATA, server, fetchCycles, hostVars>>

GenerateNetworkConfig(F) ==
    \E config \in Params, fault \in FaultsFor(F, METADATA),
       os \in OSMapsFor(MAC_TO_NICS) :
        \E r \in {generate_network_config(METADATA, MAC_TO_NICS, config,
                                          Http(server, fault), os)} :
            ProcCall("generate_network_config", fault, r)

GenerateConfig(F) ==
    \E config \in Params, fault \in FaultsFor(F, METADATA),
       os \in OSMapsFor(MAC_TO_NICS) :
        \E r \in {generate_config(METADATA, MAC_TO_NICS, config,
                                  Http(server, fault), os)} :
            ProcCall("generate_config", fault, r)

\* the host while the process is followed
HostIdle ==
    /\ manufacturer = "Vultr"
    /\ cmdline = NoFile
    /\ etcVultr = "absent"
    /\ cacheDir = FALSE
    /\ cacheFile = NoFile

\* the process at import time
ProcStart ==
    /\ METADATA = None
    /\ MAC_TO_NICS = None
    /\ fetchCycles = 0
    /\ osQueries = 0
    /\ ret = NoCall

(* The process and its two caches, with a service that can fail *)

Init == ProcStart /\ HostIdle /\ server \in FaultyServers

Next ==
    \/ GetMetadata
    \/ GetInterfaceName
    \/ GenerateNetworkConfig(SynthFaults)
    \/ GenerateConfig(SynthFaults)

Spec == Init /\ [][Next]_vars

(* The two synthesizers over every instance document, the service healthy *)

InitSynth == ProcStart /\ HostIdle /\ server \in Servers

NextSynth ==
    \/ GenerateNetworkConfig({NoFault})
    \/ GenerateConfig({NoFault})

SpecSynth == InitSynth /\ [][NextSynth]_vars

(* fetch_metadata over the field names *)

InitFetch == ProcStart /\ HostIdle /\ server \in FaultyServers

NextFetch == FetchMetadata

SpecFetch == InitFetch /\ [][NextFetch]_vars

(* The host: platform detection and the network cache store *)

\* a service that is never asked while the host is followed
IdleServer == [script |-> "", v1 |-> [interfaces |-> <<>>]]

\* what dmi.read_dmi_data("system-manufacturer") can answer
Manufacturers == {"Vultr", "vultr", "QEMU", ""}

\* /proc/cmdline: absent, or present with one of these contents
CmdLines ==
    {NoFile} \cup
    {File(c) : c \in {"BOOT_IMAGE=/vmlinuz root=/dev/vda1 ro\n",
                      "BOOT_IMAGE=/vmlinuz root=vultr ro\n",
                      "vultr root=/dev/vda1\n",
                      "root=vultr\n",
                      "q root=\n",
                      "q root=v",
                      "vultr ro\n",
                      ""}}

\* the network configuration documents handed to the cache: what the
\* synthesizer produces for the interface lists of length 0..2
CacheDocs ==
    {[version |-> 1, config |-> network_blocks(l, IfName, IfName).value] :
        l \in IfaceLists(2)}

\* the text a cache file can hold at boot
CacheTexts ==
    {"", json_dumps([version |-> 1, config |-> <<nameserver_netcfg>>])}

\* the file system [etcVultr, cacheDir, cacheFile] of the host
HostFs == [etcVultr |-> etcVultr, cacheDir |-> cacheDir,
           cacheFile |-> cacheFile]

\* a call that touches the host: r is the result of its operator
HostCall(op, arg, r) ==
    /\ ret' = [op |-> op, arg |-> arg, exc |-> r.exc, value |-> r.value,
               found |-> TRUE, requests |-> <<>>, queries |-> 0]
    /\ etcVultr' = r.fs.etcVultr
    /\ cacheDir' = r.fs.cacheDir
    /\ cacheFile' = r.fs.cacheFile
    /\ UNCHANGED <<procVars, manufacturer, cmdline>>

IsVultr ==
    \E r \in {is_vultr(manufacturer, cmdline, etcVultr)} :
        HostCall("is_vultr", None, r @@ [fs |-> HostFs])

GetCachedNetworkConfig ==
    \E r \in {get_cached_network_config(HostFs)} :
        HostCall("get_cached_network_config", None, r)

CacheNetworkConfig ==
    \E config \in CacheDocs :
        \E r \in {cache_network_config(HostFs, config)} :
            HostCall("cache_network_config", config, r)

InitHost ==
    /\ ProcStart
    /\ server = IdleServer
    /\ manufacturer \in Manufacturers
    /\ cmdline \in CmdLines
    /\ etcVultr \in {"absent", "file", "dir"}
    /\ cacheDir \in {b \in BOOLEAN : b => etcVultr = "dir"}
    /\ cacheFile \in
           {NoFile} \cup {File(t) : t \in {c \in CacheTexts : cacheDir}}

NextHost ==
    \/ IsVultr
    \/ GetCachedNetworkConfig
    \/ CacheNetworkConfig

SpecHost == InitHost /\ [][NextHost]_vars

----------------------------------------------------------------------------
(* Properties of the network synthesizer *)

\* the interface list of the instance document the service serves
served == server.v1.interfaces

\* how many interfaces of the list generate_network_config reads
used == IF Len(served) < 2 THEN Len(served) ELSE 2

\* the MACs of the interfaces that are read all resolve in the mapping
Resolves ==
    \/ used = 0
    \/ /\ ~py_not(MAC_TO_NICS)
       /\ \A i \in 1..used :
            /\ served[i].mac \in DOMAIN MAC_TO_NICS
            /\ MAC_TO_NICS[served[i].mac] # ""

\* the last call was generate_network_config and it returned a document
Synthesized ==
    /\ ret.op = "generate_network_config"
    /\ ret.exc = "None"

\* C1: for an interface list of length n whose first two MACs resolve,
\* generate_network_config returns 1 + min(n, 2) blocks: the nameserver
\* block with address 108.61.10.10, then the block of interface 0, then the
\* block of interface 1; an interface at index 2 or higher gives no block,
\* no name and no MAC.
C1_BlockOrder ==
    ret.op = "generate_network_config" /\ Resolves =>
        /\ ret.exc = "None"
        /\ Len(ret.value.config) = 1 + used
        /\ ret.value.config[1] =
               [type |-> "nameserver", address |-> <<"108.61.10.10">>]
        /\ \A i \in 1..used :
             /\ ret.value.config[i + 1].type = "physical"
             /\ ret.value.config[i + 1].mac_address = served[i].mac
             /\ ret.value.config[i + 1].name = MAC_TO_NICS[served[i].mac]
             /\ ret.value.config[i + 1].subnets[1].address =
                    served[i].ipv4.address

\* a document was returned for a list of three interfaces whose third
\* interface differs from the first two
C1_ThreeInterfaces ==
    /\ Synthesized
    /\ Len(served) = 3
    /\ served[3].mac \notin {served[1].mac, served[2].mac}
    /\ Len(ret.value.config) = 3

\* C2: with at least one interface whose MAC resolves, the second block is
\* a physical block with the resolved name and the MAC of interface 0, and
\* its subnets are a static subnet with the address, gateway and netmask of
\* interface 0 as they are (an empty gateway included), then a dhcp6 subnet
\* without address fields.
C2_PrimaryBlock ==
    Synthesized /\ Len(served) >= 1 =>
        /\ ret.value.config[2].type = "physical"
        /\ ret.value.config[2].name = MAC_TO_NICS[served[1].mac]
        /\ ret.value.config[2].mac_address = served[1].mac
        /\ Len(ret.value.config[2].subnets) = 2
        /\ {"type", "address", "gateway", "netmask"} \subseteq
               DOMAIN ret.value.config[2].subnets[1]
        /\ ret.value.config[2].subnets[1].type = "static"
        /\ ret.value.config[2].subnets[1].address = served[1].ipv4.address
        /\ ret.value.config[2].subnets[1].gateway = served[1].ipv4.gateway
        /\ ret.value.config[2].subnets[1].netmask = served[1].ipv4.netmask
        /\ ret.value.config[2].subnets[2].type = "dhcp6"
        /\ DOMAIN ret.value.config[2].subnets[2] \cap
               {"address", "gateway", "netmask"} = {}

\* a document was returned whose interface 0 has an empty gateway
C2_EmptyGateway ==
    /\ Synthesized
    /\ Len(served) >= 1
    /\ served[1].ipv4.gateway = ""
    /\ ret.value.config[2].subnets[1].gateway = ""

\* C3: with at least two interfaces whose first two MACs resolve, the third
\* block has exactly one subnet, a static subnet with the address and
\* netmask of interface 1, and that subnet has no gateway key, whatever
\* gateway interface 1 carries.
C3_SecondaryBlock ==
    Synthesized /\ Len(served) >= 2 =>
        /\ Len(ret.value.config[3].subnets) = 1
        /\ {"type", "address", "netmask"} \subseteq
               DOMAIN ret.value.config[3].subnets[1]
        /\ ret.value.config[3].subnets[1].type = "static"
        /\ ret.value.config[3].subnets[1].address = served[2].ipv4.address
        /\ ret.value.config[3].subnets[1].netmask = served[2].ipv4.netmask
        /\ "gateway" \notin DOMAIN ret.value.config[3].subnets[1]

\* a document was returned whose interface 1 carries a gateway
C3_GatewayDropped ==
    /\ Synthesized
    /\ Len(served) >= 2
    /\ served[2].ipv4.gateway # ""
    /\ Len(ret.value.config) = 3

----------------------------------------------------------------------------
(* Properties of the vendor config synthesizer *)

\* C4: generate_config returns a document for every bundle; with a
\* non-empty startup-script the document has the write-file directive
\* (base64 of the script, /tmp/startup-vultr.sh, 0755, root:root) and a
\* run-command list of exactly the two commands run-then-remove; with an
\* empty startup-script it has no write-file directive and no run-command
\* entries.
C4_ScriptToggle ==
    ret.op = "generate_config" /\ Resolves =>
        /\ ret.exc = "None"
        /\ IF server.script # ""
           THEN /\ {"write_files", "runcmd"} \subseteq DOMAIN ret.value
                /\ Len(ret.value.write_files) = 1
                /\ ret.value.write_files[1].encoding = "b64"
                /\ ret.value.write_files[1].content = b64encode(server.script)
                /\ ret.value.write_files[1].path = "/tmp/startup-vultr.sh"
                /\ ret.value.write_files[1].permissions = "0755"
                /\ ret.value.write_files[1].owner = "root:root"
                /\ ret.value.runcmd =
                       << "/tmp/startup-vultr.sh &> /var/log/vultr-boot.log",
                          "rm -f /tmp/startup-vultr.sh" >>
           ELSE /\ "write_files" \notin DOMAIN ret.value
                /\ "runcmd" \in DOMAIN ret.value => ret.value.runcmd = <<>>

\* generate_config was called for a bundle with a startup script whose
\* interfaces resolve, and config_template['runcmd'] raised KeyError
C4_RuncmdKeyError ==
    /\ ret.op = "generate_config"
    /\ Resolves
    /\ server.script # ""
    /\ ret.exc = "KeyError"

----------------------------------------------------------------------------
(* Properties of the metadata fetcher *)

\* the calls that go through get_metadata
MetadataCalls == {"get_metadata", "generate_network_config", "generate_config"}

\* C5: once get_metadata has returned a bundle, every later call of
\* get_metadata, directly or through generate_network_config and
\* generate_config and with any params, returns that same bundle and issues
\* no HTTP request.
C5_Memoized ==
    [][ /\ ret'.op = "get_metadata" /\ ret'.exc = "None" =>
            ret'.value = METADATA'
        /\ ~py_not(METADATA) /\ ret'.op \in MetadataCalls =>
            /\ METADATA' = METADATA
            /\ ret'.requests = <<>>
            /\ fetchCycles' = fetchCycles
            /\ ret'.op = "get_metadata" =>
                   ret'.exc = "None" /\ ret'.value = METADATA ]_vars

\* get_metadata answered from the cache after one fetch cycle
C5_CachedAnswer ==
    /\ ret.op = "get_metadata"
    /\ ret.exc = "None"
    /\ ret.requests = <<>>
    /\ fetchCycles = 1
    /\ ret.value = METADATA
    /\ DOMAIN METADATA = MetadataKeys

\* C6: when the fetch of one of the nine fields gets a response that is not
\* successful, or the v1.json body is not JSON, get_metadata fails and the
\* cache stays unset; the cached bundle is absent or has all nine fields,
\* and no call returns a bundle with fewer than nine fields.
C6_NoPartialBundle ==
    /\ METADATA = None \/ DOMAIN METADATA = MetadataKeys
    /\ ret.op = "get_metadata" /\ ret.exc = "None" =>
           DOMAIN ret.value = MetadataKeys
    /\ ret.op \in MetadataCalls =>
           (ret.arg # NoFault => ret.exc # "None" /\ METADATA = None)

\* get_metadata failed on the ninth request, after eight fields were
\* fetched, and the cache is unset
C6_FailedFetch ==
    /\ ret.op = "get_metadata"
    /\ ret.arg.flag = "v1.json"
    /\ ret.exc # "None"
    /\ Len(ret.requests) = 9
    /\ METADATA = None

\* C9: fetch_metadata issues an HTTP request only for a field name that is
\* a key of API_MAP or begins with app- or md-; for every other field name
\* it fails before any request is made.
C9_RequestsKnownFields ==
    ret.op = "fetch_metadata" =>
        \/ ret.arg \in DOMAIN API_MAP
        \/ startswith(ret.arg, "app-")
        \/ startswith(ret.arg, "md-")
        \/ ret.exc # "None" /\ ret.requests = <<>>

\* a request went out for a field name that only contains md-
C9_SubstringRequest ==
    /\ ret.op = "fetch_metadata"
    /\ ret.arg = "cmd-line"
    /\ ret.requests = <<"http://md/v1/internal/cmd-line">>

\* C11: over any sequence of get_metadata calls, failed calls included, at
\* most one fetch cycle is started: the first field, startup-script, is
\* requested at most once in the life of the process.
C11_OneFetchCycle ==
    fetchCycles <= 1

\* a call of get_metadata requested startup-script again after an earlier
\* call had failed and left the cache unset
C11_SecondFetchCycle ==
    /\ ret.op = "get_metadata"
    /\ fetchCycles = 2
    /\ ret.requests # <<>>
    /\ ret.requests[1] \in
           {prm.url \o API_MAP["startup-script"] : prm \in Params}

----------------------------------------------------------------------------
(* Properties of the interface resolver *)

\* C8: over any sequence of get_interface_name calls, whatever mapping the
\* OS returns on the first query (the empty mapping included), the OS is
\* queried exactly once, on the first call.
C8_OneOsQuery ==
    /\ osQueries <= 1
    /\ ret.op = "get_interface_name" => osQueries = 1

\* a call of get_interface_name queried the OS after an earlier call had
\* already built the mapping, which was empty
C8_SecondOsQuery ==
    /\ ret.op = "get_interface_name"
    /\ ret.queries = 1
    /\ osQueries = 2

----------------------------------------------------------------------------
(* Properties of the platform detector *)

\* the text of the command line after its root= parameter name: what is
\* left when everything up to root= is removed
root_region(file) ==
    IF ~file.exists \/ ~str_in("root=", file.content) THEN ""
    ELSE re_sub_root(file.content, 1)

\* C7: for every manufacturer string, command line file (absent or present
\* with any content) and /etc/vultr state, is_vultr returns a boolean
\* without raising, and returns true exactly when the manufacturer is
\* "Vultr", or the root= region of the command line contains "vultr", or
\* /etc/vultr is a directory.
C7_ThreeSignals ==
    ret.op = "is_vultr" =>
        /\ ret.exc = "None"
        /\ ret.value = (\/ manufacturer = "Vultr"
                        \/ str_in("vultr", root_region(cmdline))
                        \/ etcVultr = "dir")

\* is_vultr answered false on a host whose command line has vultr in its
\* root= region
C7_MissedKernelSignal ==
    /\ ret.op = "is_vultr"
    /\ str_in("vultr", root_region(cmdline))
    /\ ret.exc = "None"
    /\ ret.value = FALSE

----------------------------------------------------------------------------
(* Properties of the network cache store *)

\* C10: cache_network_config(doc) leaves the JSON text of doc in the cache
\* file and get_cached_network_config() returns the text of the cache file,
\* so the text written is the text read back; get_cached_network_config()
\* returns the empty string when no cache file exists.
C10_RoundTrip ==
    /\ ret.op = "cache_network_config" =>
           /\ ret.exc = "None"
           /\ cacheFile = File(json_dumps(ret.arg))
    /\ ret.op = "get_cached_network_config" =>
           /\ ret.exc = "None"
           /\ ret.value = IF cacheFile.exists THEN cacheFile.content ELSE ""

\* cache_network_config raised NameError and no cache file was written
C10_NameError ==
    /\ ret.op = "cache_network_config"
    /\ ret.exc = "NameError"
    /\ ~cacheFile.exists

=============================================================================
